---- MODULE Spec2Model ----
(***************************************************************************)
(* Verification model of seven programs of the repository:                 *)
(*   - dsa/solutions/backtracking/0037_sudoku_solver.cpp  (class Solution) *)
(*   - dsa/solutions/stack_queue/0155_min_stack.cpp       (class MinStack) *)
(*   - dsa/solutions/stack_queue/0232_implement_queue_using_stacks.cpp     *)
(*   - dsa/solutions/stack_queue/0225_implement_stack_using_queues.cpp     *)
(*   - dsa/solutions/segment_tree/0732_my_calendar_iii.cpp                 *)
(*   - dsa/solutions/segment_tree/0307_range_sum_query_mutable.cpp         *)
(*   - dsa/solutions/heaps/0295_find_median_from_data_stream.cpp           *)
(* Each program has its own specification; the variables of the other      *)
(* programs stay at their initial values.                                  *)
(* Characters are modelled by their ASCII codes, an int mask by the set of  *)
(* its 1 bits.                                                             *)
(***************************************************************************)
EXTENDS Integers, Sequences, FiniteSets, TLC

VARIABLES
    board,      \* std::vector<std::vector<char>>& board, board[r][c], r, c in 0..8
    rowMask,    \* int rowMask[9]
    colMask,    \* int colMask[9]
    boxMask,    \* int boxMask[9]
    empties,    \* std::vector<std::pair<int,int>> empties
    pc,         \* position of the single thread inside solveSudoku
    stack,      \* the activation records of dfs, root first
    arg,        \* the idx argument of the dfs call being entered
    ret,        \* the value returned by the dfs call that returned last
    input,      \* the board as it was handed to solveSudoku (history)
    log,        \* the place / remove steps of the current call (history)
    runs,       \* number of solveSudoku calls started so far
    prevLog,    \* log of the previous call (history)
    prevBoard,  \* board at the return of the previous call (history)
    st,         \* MinStack::st, top is the last element
    minSt,      \* MinStack::minSt, top is the last element
    ops,        \* the MinStack calls made so far (history)
    mq_in,      \* MyQueue::in, top is the last element
    mq_out,     \* MyQueue::out, top is the last element
    mq_hist,    \* the MyQueue calls made so far, with what they returned (history)
    ms_q,       \* MyStack::q, front is the first element
    ms_hist,    \* the MyStack calls made so far, with what they returned (history)
    cal_delta,  \* MyCalendarThree::delta, the std::map as a function on its keys
    cal_hist,   \* the book calls made so far, with what they returned (history)
    na_n,       \* NumArray::n
    na_bit,     \* NumArray::bit, bit[i] is na_bit[i + 1]
    na_a,       \* NumArray::a, a[i] is na_a[i + 1]
    na_nums,    \* the vector handed to the constructor (history)
    na_hist,    \* the update calls made so far (history)
    mf_maxHeap, \* MedianFinder::maxHeap, its elements in ascending order (top is the last)
    mf_minHeap, \* MedianFinder::minHeap, its elements in ascending order (top is the first)
    mf_hist,    \* the numbers handed to addNum so far (history)
    bx_r,       \* boxIndex: argument r
    bx_c,       \* boxIndex: argument c
    bx_b        \* boxIndex: the value returned, -1 before the call

sudokuVars == <<board, rowMask, colMask, boxMask, empties, pc, stack, arg, ret,
                input, log, runs, prevLog, prevBoard>>
minStackVars == <<st, minSt, ops>>
queueVars == <<mq_in, mq_out, mq_hist>>
myStackVars == <<ms_q, ms_hist>>
calendarVars == <<cal_delta, cal_hist>>
numArrayVars == <<na_n, na_bit, na_a, na_nums, na_hist>>
medianVars == <<mf_maxHeap, mf_minHeap, mf_hist>>
boxVars == <<bx_r, bx_c, bx_b>>
\* everything but the Sudoku solver
structVars == <<minStackVars, queueVars, myStackVars, calendarVars, numArrayVars, medianVars, boxVars>>
vars == <<board, rowMask, colMask, boxMask, empties, pc, stack, arg, ret,
          input, log, runs, prevLog, prevBoard, st, minSt, ops,
          mq_in, mq_out, mq_hist, ms_q, ms_hist, cal_delta, cal_hist,
          na_n, na_bit, na_a, na_nums, na_hist,
          mf_maxHeap, mf_minHeap, mf_hist, bx_r, bx_c, bx_b>>

----------------------------------------------------------------------------
(* Bounds of the model *)

\* at most this many cells of HoleCells are blanked in an input board
MaxHoles == 4
\* solveSudoku is called at most this many times in one behaviour
MaxRuns == 2
\* MinStack: at most this many calls in one behaviour
MaxOps == 5
\* MinStack: pushed values range over -MaxVal..MaxVal
MaxVal == 1
\* times handed to book are 0 .. MaxTime
MaxTime == 3
\* number of book calls
MaxBooks == 3
\* largest length of the vector handed to NumArray
MaxN == 3
\* number of update calls
MaxUpd == 2

----------------------------------------------------------------------------
(* Program constants *)

N == 9          \* side of the board; size of the mask arrays
Dot == 46       \* '.'
One == 49       \* '1'
IntBits == 32   \* width of int
NumLimit == 100 \* NumArray: -100 <= nums[i], val <= 100

Cells == (0 .. N - 1) \X (0 .. N - 1)
Digits == One .. One + N - 1

----------------------------------------------------------------------------
(* int bit operations. An int is modelled by the set of the positions of  *)
(* its 1 bits, 0 the lowest: 0 is {}, 1 << d is {d}, 0x1FF is 0..8.        *)

\* the bit positions of an int
Bits == 0 .. IntBits - 1

\* a & b
BitAnd(a, b) == a \cap b

\* a | b
BitOr(a, b) == a \cup b

\* ~a
BitNot(a) == Bits \ a

\* 1 << d
Shl(d) == {d}

\* mutant: r / 3 + c / 3, the scaling by 3 left out
boxIndexNoScale(r, c) == (r \div 3) + (c \div 3)

\* (r / 3) * 3 + (c / 3)
boxIndex(r, c) == (r \div 3) * 3 + (c \div 3)

----------------------------------------------------------------------------
(* Input boards: a solved grid, and the same grid with one given changed,  *)
(* each with up to MaxHoles of the cells HoleCells blanked.                *)

SolvedRows ==
    << <<5, 3, 4, 6, 7, 8, 9, 1, 2>>,
       <<6, 7, 2, 1, 9, 5, 3, 4, 8>>,
       <<1, 9, 8, 3, 4, 2, 5, 6, 7>>,
       <<8, 5, 9, 7, 6, 1, 4, 2, 3>>,
       <<4, 2, 6, 8, 5, 3, 7, 9, 1>>,
       <<7, 1, 3, 9, 2, 4, 8, 5, 6>>,
       <<9, 6, 1, 5, 3, 7, 2, 8, 4>>,
       <<2, 8, 7, 4, 1, 9, 6, 3, 5>>,
       <<3, 4, 5, 2, 8, 6, 1, 7, 9>> >>

Base == [r \in 0 .. N - 1 |-> [c \in 0 .. N - 1 |-> One + SolvedRows[r + 1][c + 1] - 1]]

\* Base with the '1' at (8,6) replaced by '6': clashes with the '6' at (7,6) and (8,5)
Patched == [Base EXCEPT ![8][6] = One + 5]

HoleCells == { <<5, 3>>, <<5, 5>>, <<5, 6>>, <<7, 3>>, <<7, 5>>, <<7, 6>>, <<8, 5>> }

Puzzle(g, H) == [r \in 0 .. N - 1 |-> [c \in 0 .. N - 1 |->
                    IF <<r, c>> \in H THEN Dot ELSE g[r][c]]]

Boards == { Puzzle(g, H) : g \in {Base, Patched},
                           H \in {X \in SUBSET HoleCells : Cardinality(X) <= MaxHoles} }

----------------------------------------------------------------------------
(* class Solution *)

\* mutant: the arrays declared without "= {0}", one entry holding a stale bit
freshMasksUninit == { [i \in 0 .. N - 1 |-> {}], [i \in 0 .. N - 1 |-> IF i = 5 THEN {8} ELSE {}] }

\* int rowMask[9] = {0}; int colMask[9] = {0}; int boxMask[9] = {0};
freshMasks == { [i \in 0 .. N - 1 |-> {}] }

\* mutant: the loops of init swapped, c outside and r inside
ScanOrderColMajor == [k \in 1 .. N * N |-> <<(k - 1) % N, (k - 1) \div N>>]

\* the cells in the order the double loop of init visits them (row-major)
ScanOrder == [k \in 1 .. N * N |-> <<(k - 1) \div N, (k - 1) % N>>]

\* the index of the mask entry of the given kind that cell (r, c) updates:
\* rowMask[r], colMask[c], boxMask[boxIndex(r, c)]
unitIndex(kind, r, c) ==
    CASE kind = "row" -> r
      [] kind = "col" -> c
      [] kind = "box" -> boxIndex(r, c)

\* the bits "1 << (ch - '1')" of the cells of the scan that take the else
\* branch (ch != '.') and update entry i of the masks of the given kind
bitsOf(b, kind, i) ==
    { Shl(b[p[1]][p[2]] - One) :
        p \in { q \in Cells : b[q[1]][q[2]] # Dot /\ unitIndex(kind, q[1], q[2]) = i } }

\* mask entry m after "m |= bit" for every bit of bits
orAll(m, bits) == BitOr(m, UNION bits)

\* the cells of the scan that take the then branch: empties.emplace_back(r, c)
emptyCells(b) == SelectSeq(ScanOrder, LAMBDA p : b[p[1]][p[2]] = Dot)

\* init(board): empties.clear(), then the scan; the masks are or-ed into as they are
init(b, rm, cm, bm) ==
    [rowMask |-> [i \in 0 .. N - 1 |-> orAll(rm[i], bitsOf(b, "row", i))],
     colMask |-> [i \in 0 .. N - 1 |-> orAll(cm[i], bitsOf(b, "col", i))],
     boxMask |-> [i \in 0 .. N - 1 |-> orAll(bm[i], bitsOf(b, "box", i))],
     empties |-> emptyCells(b)]

\* mutant: idx == empties.size() - 1
dfsDoneOffByOne(idx) == idx = Len(empties) - 1

\* if (idx == static_cast<int>(empties.size())) return true;
dfsDone(idx) == idx = Len(empties)

\* mutant: the row mask left out of used
usedMaskNoRow(rm, cm, bm, r, c) == BitOr(cm[c], bm[boxIndex(r, c)])

\* mutant: the column mask left out of used
usedMaskNoCol(rm, cm, bm, r, c) == BitOr(rm[r], bm[boxIndex(r, c)])

\* int used = rowMask[r] | colMask[c] | boxMask[boxIndex(r, c)];
usedMask(rm, cm, bm, r, c) == BitOr(BitOr(rm[r], cm[c]), bm[boxIndex(r, c)])

\* the int n as a set of bits
Bitset(n) == { i \in 0 .. IntBits - 2 : (n \div (2 ^ i)) % 2 = 1 }

\* mutant: used & (1 << (d + 1)), the digit's bit off by one
isUsedNextBit(used, d) == BitAnd(used, Shl(d + 1)) # {}

\* mutant: the smallest free digit is passed over when another is free
isUsedSkipsSmallest(used, d) ==
    \/ BitAnd(used, Shl(d)) # {}
    \/ /\ \A e \in 0 .. d - 1 : e \in used
       /\ \E e \in d + 1 .. N - 1 : e \notin used

\* mutant: used & d, the shift forgotten
isUsedNoShift(used, d) == BitAnd(used, Bitset(d)) # {}

\* if (used & bit) continue;
isUsed(used, d) == BitAnd(used, Shl(d)) # {}

\* the grid and the three mask arrays
Grid == [board |-> board, rowMask |-> rowMask, colMask |-> colMask, boxMask |-> boxMask]

\* mutant: '0' + d
digitCharFromZero(d) == One - 1 + d

\* static_cast<char>('1' + d)
digitChar(d) == One + d

\* mutant: colMask[c] |= bit left out
placeNoCol(g, r, c, d) ==
    LET bit == Shl(d)
        b == boxIndex(r, c)
    IN  [board |-> [g.board EXCEPT ![r][c] = digitChar(d)],
         rowMask |-> [g.rowMask EXCEPT ![r] = BitOr(@, bit)],
         colMask |-> g.colMask,
         boxMask |-> [g.boxMask EXCEPT ![b] = BitOr(@, bit)]]

\* mutant: board[c][r] written for board[r][c]
placeTransposed(g, r, c, d) ==
    LET bit == Shl(d)
        b == boxIndex(r, c)
    IN  [board |-> [g.board EXCEPT ![c][r] = digitChar(d)],
         rowMask |-> [g.rowMask EXCEPT ![r] = BitOr(@, bit)],
         colMask |-> [g.colMask EXCEPT ![c] = BitOr(@, bit)],
         boxMask |-> [g.boxMask EXCEPT ![b] = BitOr(@, bit)]]

\* "place digit"
place(g, r, c, d) ==
    LET bit == Shl(d)
        b == boxIndex(r, c)
    IN  [board |-> [g.board EXCEPT ![r][c] = digitChar(d)],
         rowMask |-> [g.rowMask EXCEPT ![r] = BitOr(@, bit)],
         colMask |-> [g.colMask EXCEPT ![c] = BitOr(@, bit)],
         boxMask |-> [g.boxMask EXCEPT ![b] = BitOr(@, bit)]]

\* mutant: the cell is cleared, the three masks are not restored
removeKeepsMasks(g, r, c, d) ==
    [board |-> [g.board EXCEPT ![r][c] = Dot],
     rowMask |-> g.rowMask, colMask |-> g.colMask, boxMask |-> g.boxMask]

\* mutant: colMask[c] &= ~bit left out
removeKeepsCol(g, r, c, d) ==
    LET bit == Shl(d)
        b == boxIndex(r, c)
    IN  [board |-> [g.board EXCEPT ![r][c] = Dot],
         rowMask |-> [g.rowMask EXCEPT ![r] = BitAnd(@, BitNot(bit))],
         colMask |-> g.colMask,
         boxMask |-> [g.boxMask EXCEPT ![b] = BitAnd(@, BitNot(bit))]]

\* mutant: boxMask[b] &= ~bit left out
removeKeepsBox(g, r, c, d) ==
    LET bit == Shl(d)
    IN  [board |-> [g.board EXCEPT ![r][c] = Dot],
         rowMask |-> [g.rowMask EXCEPT ![r] = BitAnd(@, BitNot(bit))],
         colMask |-> [g.colMask EXCEPT ![c] = BitAnd(@, BitNot(bit))],
         boxMask |-> g.boxMask]

\* mutant: board[r][c] = '.' left out, the masks are restored
removeKeepsBoard(g, r, c, d) ==
    LET bit == Shl(d)
        b == boxIndex(r, c)
    IN  [board |-> g.board,
         rowMask |-> [g.rowMask EXCEPT ![r] = BitAnd(@, BitNot(bit))],
         colMask |-> [g.colMask EXCEPT ![c] = BitAnd(@, BitNot(bit))],
         boxMask |-> [g.boxMask EXCEPT ![b] = BitAnd(@, BitNot(bit))]]

\* "backtrack"
remove(g, r, c, d) ==
    LET bit == Shl(d)
        b == boxIndex(r, c)
    IN  [board |-> [g.board EXCEPT ![r][c] = Dot],
         rowMask |-> [g.rowMask EXCEPT ![r] = BitAnd(@, BitNot(bit))],
         colMask |-> [g.colMask EXCEPT ![c] = BitAnd(@, BitNot(bit))],
         boxMask |-> [g.boxMask EXCEPT ![b] = BitAnd(@, BitNot(bit))]]

\* mutant: dfs(board, idx + 2)
nextIdxSkip(idx) == idx + 2

\* mutant: dfs(board, idx)
nextIdxSame(idx) == idx

\* dfs(board, idx + 1)
nextIdx(idx) == idx + 1

Top == stack[Len(stack)]
Pop == SubSeq(stack, 1, Len(stack) - 1)
SetTop(f) == [stack EXCEPT ![Len(stack)] = f]

\* solveSudoku, first statement: init(board); then dfs(board, 0) is entered
InitBoard ==
    /\ pc = "start"
    /\ rowMask' = init(board, rowMask, colMask, boxMask).rowMask
    /\ colMask' = init(board, rowMask, colMask, boxMask).colMask
    /\ boxMask' = init(board, rowMask, colMask, boxMask).boxMask
    /\ empties' = init(board, rowMask, colMask, boxMask).empties
    /\ arg' = 0
    /\ pc' = "call"
    /\ UNCHANGED <<board, stack, ret, input, log, runs, prevLog, prevBoard>>
    /\ UNCHANGED structVars

\* dfs entered with idx == empties.size(): return true
DfsSuccess ==
    /\ pc = "call"
    /\ dfsDone(arg)
    /\ ret' = TRUE
    /\ pc' = "ret"
    /\ UNCHANGED <<board, rowMask, colMask, boxMask, empties, stack, arg,
                   input, log, runs, prevLog, prevBoard>>
    /\ UNCHANGED structVars

\* dfs entered with a cell left: read r, c and used, start the loop at d = 0.
\* empties[idx] outside the vector is an out-of-bounds read: "fault".
DfsEnter ==
    /\ pc = "call"
    /\ ~dfsDone(arg)
    /\ IF arg + 1 \in DOMAIN empties
       THEN LET r == empties[arg + 1][1]
                c == empties[arg + 1][2]
            IN  /\ stack' = Append(stack,
                       [idx |-> arg, r |-> r, c |-> c,
                        used |-> usedMask(rowMask, colMask, boxMask, r, c),
                        d |-> 0, entry |-> Grid, pre |-> Grid])
                /\ pc' = "loop"
       ELSE /\ stack' = stack
            /\ pc' = "fault"
    /\ UNCHANGED <<board, rowMask, colMask, boxMask, empties, arg, ret,
                   input, log, runs, prevLog, prevBoard>>
    /\ UNCHANGED structVars

\* loop body, digit taken: continue
Skip ==
    /\ pc = "loop"
    /\ Top.d < N
    /\ isUsed(Top.used, Top.d)
    /\ stack' = SetTop([Top EXCEPT !.d = @ + 1])
    /\ UNCHANGED <<board, rowMask, colMask, boxMask, empties, pc, arg, ret,
                   input, log, runs, prevLog, prevBoard>>
    /\ UNCHANGED structVars

\* loop body, digit free: place it and call dfs(board, idx + 1)
Place ==
    /\ pc = "loop"
    /\ Top.d < N
    /\ ~isUsed(Top.used, Top.d)
    /\ LET g == place(Grid, Top.r, Top.c, Top.d)
       IN  /\ board' = g.board
           /\ rowMask' = g.rowMask
           /\ colMask' = g.colMask
           /\ boxMask' = g.boxMask
    /\ stack' = SetTop([Top EXCEPT !.pre = Grid])
    /\ log' = Append(log, <<"place", Top.r, Top.c, Top.d>>)
    /\ arg' = nextIdx(Top.idx)
    /\ pc' = "call"
    /\ UNCHANGED <<empties, ret, input, runs, prevLog, prevBoard>>
    /\ UNCHANGED structVars

\* loop over, d == 9: return false
DfsFail ==
    /\ pc = "loop"
    /\ Top.d >= N
    /\ stack' = Pop
    /\ ret' = FALSE
    /\ pc' = "ret"
    /\ UNCHANGED <<board, rowMask, colMask, boxMask, empties, arg,
                   input, log, runs, prevLog, prevBoard>>
    /\ UNCHANGED structVars

\* mutant: the placement is undone before true is returned
ReturnTrueUndo ==
    /\ pc = "ret"
    /\ stack # << >>
    /\ ret = TRUE
    /\ LET g == remove(Grid, Top.r, Top.c, Top.d)
       IN  /\ board' = g.board
           /\ rowMask' = g.rowMask
           /\ colMask' = g.colMask
           /\ boxMask' = g.boxMask
    /\ stack' = Pop
    /\ UNCHANGED <<empties, pc, arg, ret, input, log, runs, prevLog, prevBoard>>
    /\ UNCHANGED structVars

\* if (dfs(board, idx + 1)) return true;
ReturnTrue ==
    /\ pc = "ret"
    /\ stack # << >>
    /\ ret = TRUE
    /\ stack' = Pop
    /\ UNCHANGED <<board, rowMask, colMask, boxMask, empties, pc, arg, ret,
                   input, log, runs, prevLog, prevBoard>>
    /\ UNCHANGED structVars

\* the call returned false: backtrack, ++d
Backtrack ==
    /\ pc = "ret"
    /\ stack # << >>
    /\ ret = FALSE
    /\ LET g == remove(Grid, Top.r, Top.c, Top.d)
       IN  /\ board' = g.board
           /\ rowMask' = g.rowMask
           /\ colMask' = g.colMask
           /\ boxMask' = g.boxMask
    /\ stack' = SetTop([Top EXCEPT !.d = @ + 1])
    /\ log' = Append(log, <<"remove", Top.r, Top.c, Top.d>>)
    /\ pc' = "loop"
    /\ UNCHANGED <<empties, arg, ret, input, runs, prevLog, prevBoard>>
    /\ UNCHANGED structVars

\* the root call returned: solveSudoku returns (the bool is dropped)
Finish ==
    /\ pc = "ret"
    /\ stack = << >>
    /\ pc' = "done"
    /\ UNCHANGED <<board, rowMask, colMask, boxMask, empties, stack, arg, ret,
                   input, log, runs, prevLog, prevBoard>>
    /\ UNCHANGED structVars

\* a fresh Solution object is constructed and solveSudoku is called on a
\* new copy of the same input board
Rerun ==
    /\ pc = "done"
    /\ runs < MaxRuns
    /\ rowMask' \in freshMasks
    /\ colMask' \in freshMasks
    /\ boxMask' \in freshMasks
    /\ empties' = << >>
    /\ board' = input
    /\ prevLog' = log
    /\ prevBoard' = board
    /\ log' = << >>
    /\ runs' = runs + 1
    /\ arg' = 0
    /\ pc' = "start"
    /\ UNCHANGED <<stack, ret, input>>
    /\ UNCHANGED structVars

\* solveSudoku is called again on the same Solution object, on a new copy
\* of the same input board: the members are as the last call left them
Recall ==
    /\ pc = "done"
    /\ runs < MaxRuns
    /\ board' = input
    /\ prevLog' = log
    /\ prevBoard' = board
    /\ log' = << >>
    /\ runs' = runs + 1
    /\ arg' = 0
    /\ pc' = "start"
    /\ UNCHANGED <<rowMask, colMask, boxMask, empties, stack, ret, input>>
    /\ UNCHANGED structVars

SolverStep ==
    \/ InitBoard
    \/ DfsSuccess
    \/ DfsEnter
    \/ Skip
    \/ Place
    \/ DfsFail
    \/ ReturnTrue
    \/ Backtrack
    \/ Finish

MinStackIdle ==
    /\ st = << >>
    /\ minSt = << >>
    /\ ops = << >>

\* a MyQueue right after construction
QueueIdle ==
    /\ mq_in = << >>
    /\ mq_out = << >>
    /\ mq_hist = << >>

\* a MyStack right after construction
MyStackIdle ==
    /\ ms_q = << >>
    /\ ms_hist = << >>

\* a MyCalendarThree right after construction: the map is empty
CalendarIdle ==
    /\ cal_delta = << >>
    /\ cal_hist = << >>

\* no NumArray constructed yet
NumArrayIdle ==
    /\ na_n = 0
    /\ na_bit = << >>
    /\ na_a = << >>
    /\ na_nums = << >>
    /\ na_hist = << >>

\* a MedianFinder right after construction
MedianIdle ==
    /\ mf_maxHeap = << >>
    /\ mf_minHeap = << >>
    /\ mf_hist = << >>

\* no boxIndex call made
BoxIdle ==
    /\ bx_r = 0
    /\ bx_c = 0
    /\ bx_b = -1

\* no solveSudoku call in progress: the state of a constructed Solution
SudokuIdle ==
    /\ input = Base
    /\ board = Base
    /\ rowMask \in freshMasks
    /\ colMask \in freshMasks
    /\ boxMask \in freshMasks
    /\ empties = << >>
    /\ pc = "idle"
    /\ stack = << >>
    /\ arg = 0
    /\ ret = FALSE
    /\ log = << >>
    /\ runs = 0
    /\ prevLog = << >>
    /\ prevBoard = Base

Init ==
    /\ input \in Boards
    /\ board = input
    /\ rowMask \in freshMasks
    /\ colMask \in freshMasks
    /\ boxMask \in freshMasks
    /\ empties = << >>
    /\ pc = "start"
    /\ stack = << >>
    /\ arg = 0
    /\ ret = FALSE
    /\ log = << >>
    /\ runs = 1
    /\ prevLog = << >>
    /\ prevBoard = input
    /\ MinStackIdle
    /\ QueueIdle
    /\ MyStackIdle
    /\ CalendarIdle
    /\ NumArrayIdle
    /\ MedianIdle
    /\ BoxIdle

Next == SolverStep \/ Rerun

Spec == Init /\ [][Next]_vars

\* mutant: the altered backtrack step restores the masks after all
removeRestoring(g, r, c, d) == remove(g, r, c, d)

\* the backtrack step with its mask restoration skipped: board[r][c] = '.'
\* is kept, the three "&= ~bit" statements are dropped
removeSkipped(g, r, c, d) ==
    [board |-> [g.board EXCEPT ![r][c] = Dot],
     rowMask |-> g.rowMask, colMask |-> g.colMask, boxMask |-> g.boxMask]

\* the call returned false, in the solver altered that way: backtrack, ++d
BacktrackSkipped ==
    /\ pc = "ret"
    /\ stack # << >>
    /\ ret = FALSE
    /\ LET g == removeSkipped(Grid, Top.r, Top.c, Top.d)
       IN  /\ board' = g.board
           /\ rowMask' = g.rowMask
           /\ colMask' = g.colMask
           /\ boxMask' = g.boxMask
    /\ stack' = SetTop([Top EXCEPT !.d = @ + 1])
    /\ log' = Append(log, <<"remove", Top.r, Top.c, Top.d>>)
    /\ pc' = "loop"
    /\ UNCHANGED <<empties, arg, ret, input, runs, prevLog, prevBoard>>
    /\ UNCHANGED structVars

\* the solver with that one change, called once on a fresh Solution
AlteredNext ==
    \/ InitBoard
    \/ DfsSuccess
    \/ DfsEnter
    \/ Skip
    \/ Place
    \/ DfsFail
    \/ ReturnTrue
    \/ BacktrackSkipped
    \/ Finish

AlteredSpec == Init /\ [][AlteredNext]_vars

\* one Solution object, solveSudoku called on it up to MaxRuns times
ReuseNext == SolverStep \/ Recall

ReuseSpec == Init /\ [][ReuseNext]_vars

\* the solver is one thread that runs to completion once called
FairSpec == Init /\ [][Next]_vars /\ WF_vars(SolverStep)

----------------------------------------------------------------------------
(* class MinStack *)

Vals == (0 - MaxVal) .. MaxVal

\* mutant: val < minSt.top()
pushesMinStrict(val) == minSt = << >> \/ val < minSt[Len(minSt)]

\* minSt.empty() || val <= minSt.top()
pushesMin(val) == minSt = << >> \/ val <= minSt[Len(minSt)]

\* mutant: minSt is popped with every pop of st
popsMinAlways(v) == minSt # << >>

\* !minSt.empty() && v == minSt.top()
popsMin(v) == minSt # << >> /\ v = minSt[Len(minSt)]

\* int top() { return st.top(); }
top == st[Len(st)]

\* int getMin() { return minSt.top(); }
getMin == minSt[Len(minSt)]

\* void push(int val)
push(val) ==
    /\ Len(ops) < MaxOps
    /\ st' = Append(st, val)
    /\ minSt' = IF pushesMin(val) THEN Append(minSt, val) ELSE minSt
    /\ ops' = Append(ops, <<"push", val>>)
    /\ UNCHANGED <<sudokuVars, queueVars, myStackVars, calendarVars, numArrayVars, medianVars, boxVars>>

\* void pop()
pop ==
    /\ Len(ops) < MaxOps
    /\ IF st = << >>
       THEN UNCHANGED <<st, minSt>>
       ELSE LET v == st[Len(st)]
            IN  /\ st' = SubSeq(st, 1, Len(st) - 1)
                /\ minSt' = IF popsMin(v) THEN SubSeq(minSt, 1, Len(minSt) - 1) ELSE minSt
    /\ ops' = Append(ops, <<"pop">>)
    /\ UNCHANGED <<sudokuVars, queueVars, myStackVars, calendarVars, numArrayVars, medianVars, boxVars>>

MinStackInit == SudokuIdle /\ MinStackIdle /\ QueueIdle /\ MyStackIdle /\ CalendarIdle /\ NumArrayIdle /\ MedianIdle /\ BoxIdle

MinStackNext ==
    \/ \E val \in Vals : push(val)
    \/ pop

MinStackSpec == MinStackInit /\ [][MinStackNext]_vars

-----------------------------------------------------------------------------
(* MyQueue (0232_implement_queue_using_stacks.cpp)                         *)

\* the structures that MyQueue does not touch
notQueueVars == <<sudokuVars, minStackVars, myStackVars, calendarVars, numArrayVars, medianVars, boxVars>>

\* while (!in.empty()) { out.push(in.top()); in.pop(); }
RECURSIVE shiftLoop(_, _)
shiftLoop(i, o) ==
    IF i = << >> THEN [in |-> i, out |-> o]
    ELSE shiftLoop(SubSeq(i, 1, Len(i) - 1), Append(o, i[Len(i)]))

\* mutant: the test of out.empty() left out
shiftAlways(i, o) == shiftLoop(i, o)

\* void shift(): if (out.empty()) refill out from in
shift(i, o) == IF o = << >> THEN shiftLoop(i, o) ELSE [in |-> i, out |-> o]

\* bool empty()
MyQueue_empty == mq_in = << >> /\ mq_out = << >>

\* void push(int x)
MyQueue_push(x) ==
    /\ Len(mq_hist) < MaxOps
    /\ mq_in' = Append(mq_in, x)
    /\ mq_out' = mq_out
    /\ mq_hist' = Append(mq_hist, <<"push", x>>)
    /\ UNCHANGED notQueueVars

\* int pop(), called on a non-empty queue only (out.top() on an empty
\* stack has no defined behaviour)
MyQueue_pop ==
    /\ Len(mq_hist) < MaxOps
    /\ ~MyQueue_empty
    /\ LET s == shift(mq_in, mq_out)
           v == s.out[Len(s.out)]
       IN  /\ mq_in' = s.in
           /\ mq_out' = SubSeq(s.out, 1, Len(s.out) - 1)
           /\ mq_hist' = Append(mq_hist, <<"pop", v>>)
    /\ UNCHANGED notQueueVars

\* int peek(), called on a non-empty queue only
MyQueue_peek ==
    /\ Len(mq_hist) < MaxOps
    /\ ~MyQueue_empty
    /\ LET s == shift(mq_in, mq_out)
           v == s.out[Len(s.out)]
       IN  /\ mq_in' = s.in
           /\ mq_out' = s.out
           /\ mq_hist' = Append(mq_hist, <<"peek", v>>)
    /\ UNCHANGED notQueueVars

MyQueueInit == SudokuIdle /\ MinStackIdle /\ QueueIdle /\ MyStackIdle /\ CalendarIdle /\ NumArrayIdle /\ MedianIdle /\ BoxIdle

MyQueueNext ==
    \/ \E x \in Vals : MyQueue_push(x)
    \/ MyQueue_pop
    \/ MyQueue_peek

MyQueueSpec == MyQueueInit /\ [][MyQueueNext]_vars

-----------------------------------------------------------------------------
(* MyStack (0225_implement_stack_using_queues.cpp)                         *)

\* the structures that MyStack does not touch
notMyStackVars == <<sudokuVars, minStackVars, queueVars, calendarVars, numArrayVars, medianVars, boxVars>>

\* for (size_t i = 0, n = q.size(); i + 1 < n; ++i) { q.push(q.front()); q.pop(); }
\* from counter i on, with n the size read once before the loop
RECURSIVE rotate(_, _, _)
rotate(qu, i, n) ==
    IF i + 1 < n THEN rotate(Append(Tail(qu), Head(qu)), i + 1, n)
    ELSE qu

\* mutant: the loop runs while i < n, one rotation too many
pushedAndRotatedFully(qu, x) == rotate(Append(qu, x), -1, Len(qu) + 1)

\* the queue after push(x): x at the back, then the older elements moved behind it
pushedAndRotated(qu, x) == rotate(Append(qu, x), 0, Len(qu) + 1)

\* bool empty()
MyStack_empty == ms_q = << >>

\* int top(), defined on a non-empty stack only
MyStack_top == Head(ms_q)

\* void push(int x)
MyStack_push(x) ==
    /\ Len(ms_hist) < MaxOps
    /\ ms_q' = pushedAndRotated(ms_q, x)
    /\ ms_hist' = Append(ms_hist, <<"push", x>>)
    /\ UNCHANGED notMyStackVars

\* int pop(), called on a non-empty stack only (q.front() on an empty
\* queue has no defined behaviour)
MyStack_pop ==
    /\ Len(ms_hist) < MaxOps
    /\ ~MyStack_empty
    /\ LET v == Head(ms_q)
       IN  /\ ms_q' = Tail(ms_q)
           /\ ms_hist' = Append(ms_hist, <<"pop", v>>)
    /\ UNCHANGED notMyStackVars

MyStackInit == SudokuIdle /\ MinStackIdle /\ QueueIdle /\ MyStackIdle /\ CalendarIdle /\ NumArrayIdle /\ MedianIdle /\ BoxIdle

MyStackNext ==
    \/ \E x \in Vals : MyStack_push(x)
    \/ MyStack_pop

MyStackSpec == MyStackInit /\ [][MyStackNext]_vars

-----------------------------------------------------------------------------
(* MyCalendarThree (0732_my_calendar_iii.cpp)                              *)

\* the structures that MyCalendarThree does not touch
notCalendarVars == <<sudokuVars, minStackVars, queueVars, myStackVars, numArrayVars, medianVars, boxVars>>

Times == 0 .. MaxTime

\* delta[key] += by on a std::map: a missing key is inserted with value 0 first
bump(d, key, by) ==
    [x \in DOMAIN d \cup {key} |->
        (IF x \in DOMAIN d THEN d[x] ELSE 0) + (IF x = key THEN by ELSE 0)]

\* mutant: the event is closed at its end, the decrement lands one later
bookedClosed(d, start, end) == bump(bump(d, start, 1), end + 1, -1)

\* ++delta[start]; --delta[end];
booked(d, start, end) == bump(bump(d, start, 1), end, -1)

\* for (const auto& kv : delta) { ongoing += kv.second; if (ongoing > best) best = ongoing; }
\* over the keys still to visit, in increasing key order
RECURSIVE sweep(_, _, _, _)
sweep(d, keys, ongoing, best) ==
    IF keys = {} THEN best
    ELSE LET k == CHOOSE x \in keys : \A y \in keys : x <= y
             o == ongoing + d[k]
         IN  sweep(d, keys \ {k}, o, IF o > best THEN o ELSE best)

\* int book(int start, int end), with 0 <= start < end
book(start, end) ==
    /\ Len(cal_hist) < MaxBooks
    /\ start < end
    /\ LET d == booked(cal_delta, start, end)
       IN  /\ cal_delta' = d
           /\ cal_hist' = Append(cal_hist, <<start, end, sweep(d, DOMAIN d, 0, 0)>>)
    /\ UNCHANGED notCalendarVars

CalendarInit == SudokuIdle /\ MinStackIdle /\ QueueIdle /\ MyStackIdle /\ CalendarIdle /\ NumArrayIdle /\ MedianIdle /\ BoxIdle

CalendarNext == \E start, end \in Times : book(start, end)

CalendarSpec == CalendarInit /\ [][CalendarNext]_vars

-----------------------------------------------------------------------------
(* NumArray (0307_range_sum_query_mutable.cpp)                             *)

\* the structures that NumArray does not touch
notNumArrayVars == <<sudokuVars, minStackVars, queueVars, myStackVars, calendarVars, medianVars, boxVars>>

\* the values handed in: both ends of the allowed range and a small one
NumVals == {0 - NumLimit, 1, NumLimit}

\* the vectors handed to the constructor
NumVectors == UNION { [1 .. len -> NumVals] : len \in 1 .. MaxN }

\* the int whose set bits are b (no sign bit)
RECURSIVE ToInt(_)
ToInt(b) ==
    IF b = {} THEN 0
    ELSE LET i == CHOOSE x \in b : TRUE IN 2 ^ i + ToInt(b \ {i})

\* x & -x for the indices x of a tree of at most MaxN elements; in two's
\* complement -x is ~(x - 1)
lowbitOf == [x \in 1 .. MaxN |-> ToInt(BitAnd(Bitset(x), BitNot(Bitset(x - 1))))]

\* mutant: every step is 1
lowbitOne(x) == 1

\* static int lowbit(int x), called with 1 <= x <= n only
lowbit(x) == lowbitOf[x]

\* for (int i = idx; i <= n; i += lowbit(i)) bit[i] += delta;
RECURSIVE add(_, _, _, _)
add(bt, len, i, dlt) ==
    IF i <= len THEN add([bt EXCEPT ![i + 1] = @ + dlt], len, i + lowbit(i), dlt)
    ELSE bt

\* int s = 0; for (int i = idx; i > 0; i -= (i & -i)) s += bit[i]; return s;
\* from counter i on, with s the sum so far
RECURSIVE sumPrefixFrom(_, _, _)
sumPrefixFrom(bt, i, s) ==
    IF i > 0 THEN sumPrefixFrom(bt, i - lowbit(i), s + bt[i + 1])
    ELSE s

sumPrefix(idx) == sumPrefixFrom(na_bit, idx, 0)

\* for (int i = 0; i < n; ++i) add(i + 1, a[i]);  from i on
RECURSIVE build(_, _, _)
build(bt, nums, i) ==
    IF i < Len(nums) THEN build(add(bt, Len(nums), i + 1, nums[i + 1]), nums, i + 1)
    ELSE bt

\* NumArray(vector<int>& nums)
NumArray_construct(nums) ==
    /\ na_nums = << >>
    /\ na_n' = Len(nums)
    /\ na_a' = nums
    /\ na_bit' = build([i \in 1 .. Len(nums) + 1 |-> 0], nums, 0)
    /\ na_nums' = nums
    /\ na_hist' = na_hist
    /\ UNCHANGED notNumArrayVars

\* void update(int index, int val), with 0 <= index < n
update(index, val) ==
    /\ na_nums # << >>
    /\ Len(na_hist) < MaxUpd
    /\ index \in 0 .. na_n - 1
    /\ LET dlt == val - na_a[index + 1]
       IN  /\ na_a' = [na_a EXCEPT ![index + 1] = val]
           /\ na_bit' = add(na_bit, na_n, index + 1, dlt)
    /\ na_hist' = Append(na_hist, <<index, val>>)
    /\ UNCHANGED <<na_n, na_nums>>
    /\ UNCHANGED notNumArrayVars

\* int sumRange(int left, int right)
sumRange(left, right) ==
    IF left > right THEN 0
    ELSE sumPrefix(right + 1) - sumPrefix(left)

NumArrayInit == SudokuIdle /\ MinStackIdle /\ QueueIdle /\ MyStackIdle /\ CalendarIdle /\ NumArrayIdle /\ MedianIdle /\ BoxIdle

NumArrayNext ==
    \/ \E nums \in NumVectors : NumArray_construct(nums)
    \/ \E index \in 0 .. MaxN - 1, val \in NumVals : update(index, val)

NumArraySpec == NumArrayInit /\ [][NumArrayNext]_vars

-----------------------------------------------------------------------------
(* MedianFinder (0295_find_median_from_data_stream.cpp)                    *)

\* the structures that MedianFinder does not touch
notMedianVars == <<sudokuVars, minStackVars, queueVars, myStackVars, calendarVars,
                   numArrayVars, boxVars>>

\* priority_queue::push: the heap's elements, kept here in ascending order
heapPush(h, x) ==
    LET k == Cardinality({ i \in DOMAIN h : h[i] <= x })
    IN  SubSeq(h, 1, k) \o <<x>> \o SubSeq(h, k + 1, Len(h))

\* the first if of addNum: num goes to maxHeap (lo) if lo is empty or
\* num <= lo.top(), to minHeap (hi) otherwise
placed(lo, hi, num) ==
    IF lo = << >> \/ num <= lo[Len(lo)]
    THEN [lo |-> heapPush(lo, num), hi |-> hi]
    ELSE [lo |-> lo, hi |-> heapPush(hi, num)]

\* mutant: the else-if branch of the rebalance dropped
rebalancedOneWay(lo, hi) ==
    IF Len(lo) > Len(hi) + 1
    THEN [lo |-> SubSeq(lo, 1, Len(lo) - 1), hi |-> heapPush(hi, lo[Len(lo)])]
    ELSE [lo |-> lo, hi |-> hi]

\* the rebalance of addNum: move maxHeap.top() over if maxHeap is more
\* than one larger, else move minHeap.top() over if minHeap is larger
rebalanced(lo, hi) ==
    IF Len(lo) > Len(hi) + 1
    THEN [lo |-> SubSeq(lo, 1, Len(lo) - 1), hi |-> heapPush(hi, lo[Len(lo)])]
    ELSE IF Len(hi) > Len(lo)
    THEN [lo |-> heapPush(lo, hi[1]), hi |-> Tail(hi)]
    ELSE [lo |-> lo, hi |-> hi]

\* void addNum(int num)
addNum(num) ==
    /\ Len(mf_hist) < MaxOps
    /\ LET p == placed(mf_maxHeap, mf_minHeap, num)
           b == rebalanced(p.lo, p.hi)
       IN  /\ mf_maxHeap' = b.lo
           /\ mf_minHeap' = b.hi
    /\ mf_hist' = Append(mf_hist, num)
    /\ UNCHANGED notMedianVars

\* double findMedian() const; the double m it returns is given as the
\* integer 2 * m, which is exact: m is an int or the half of a sum of two
findMedianTwice ==
    IF Len(mf_maxHeap) = Len(mf_minHeap)
    THEN IF mf_maxHeap = << >> THEN 0
         ELSE mf_maxHeap[Len(mf_maxHeap)] + mf_minHeap[1]
    ELSE 2 * mf_maxHeap[Len(mf_maxHeap)]

MedianInit == SudokuIdle /\ MinStackIdle /\ QueueIdle /\ MyStackIdle /\ CalendarIdle /\ NumArrayIdle /\ MedianIdle /\ BoxIdle

MedianNext == \E num \in Vals : addNum(num)

MedianSpec == MedianInit /\ [][MedianNext]_vars

-----------------------------------------------------------------------------
(* Solution::boxIndex on its own (0037_sudoku_solver.cpp)                  *)

\* boxIndex is about to be called on a cell (r, c) of the grid
BoxInit ==
    /\ SudokuIdle /\ MinStackIdle /\ QueueIdle /\ MyStackIdle
    /\ CalendarIdle /\ NumArrayIdle /\ MedianIdle
    /\ bx_r \in 0 .. N - 1
    /\ bx_c \in 0 .. N - 1
    /\ bx_b = -1

\* static inline int boxIndex(int r, int c)
boxIndexCall ==
    /\ bx_b = -1
    /\ bx_b' = boxIndex(bx_r, bx_c)
    /\ UNCHANGED <<bx_r, bx_c>>
    /\ UNCHANGED <<sudokuVars, minStackVars, queueVars, myStackVars, calendarVars,
                   numArrayVars, medianVars>>

BoxNext == boxIndexCall

BoxSpec == BoxInit /\ [][BoxNext]_vars

----------------------------------------------------------------------------
(* What the claims speak of, stated on the board alone (no masks)          *)

At(g, p) == g[p[1]][p[2]]

RowUnit(r) == { <<r, c>> : c \in 0 .. N - 1 }
ColUnit(c) == { <<r, c>> : r \in 0 .. N - 1 }
BoxUnit(i, j) == { <<3 * i + a, 3 * j + b>> : a \in 0 .. 2, b \in 0 .. 2 }
Units == { RowUnit(r) : r \in 0 .. N - 1 } \cup { ColUnit(c) : c \in 0 .. N - 1 }
            \cup { BoxUnit(i, j) : i \in 0 .. 2, j \in 0 .. 2 }

\* the cells sharing a row, a column or a box with p
Peers(p) == UNION { u \in Units : p \in u } \ {p}

\* every row, column and box holds each digit exactly once
Complete(g) ==
    /\ \A p \in Cells : At(g, p) \in Digits
    /\ \A u \in Units : \A v \in Digits : Cardinality({ p \in u : At(g, p) = v }) = 1

\* no digit twice in a row, a column or a box
NoClash(g) ==
    \A p \in Cells : At(g, p) # Dot => \A q \in Peers(p) : At(g, q) # At(g, p)

\* g keeps every given of b
Extends(g, b) == \A p \in Cells : At(b, p) # Dot => At(g, p) = At(b, p)

RECURSIVE Fill(_)
\* the complete grids that fill the '.' cells of g
Fill(g) ==
    IF \A p \in Cells : At(g, p) # Dot
    THEN IF Complete(g) THEN {g} ELSE {}
    ELSE LET p == CHOOSE q \in Cells : At(g, q) = Dot
         IN  UNION { Fill(h) : h \in { [g EXCEPT ![p[1]][p[2]] = v] :
                        v \in { w \in Digits : \A q \in Peers(p) : At(g, q) # w } } }

Solutions(b) == Fill(b)
Solvable(b) == NoClash(b) /\ Solutions(b) # {}
UniqueSolution(b) == Cardinality(Solutions(b)) = 1

\* bit d of mask m is set
HasBit(m, d) == d \in m

Backtracked == \E i \in DOMAIN log : log[i][1] = "remove"
Searching == pc \in {"call", "loop", "ret", "done"}
IsPrefix(s, t) == Len(s) <= Len(t) /\ SubSeq(t, 1, Len(s)) = s

----------------------------------------------------------------------------
(* C1: for an input board that obeys row/column/box uniqueness and has a   *)
(* solution, when solveSudoku returns every cell holds a digit '1'..'9'    *)
(* and every row, column and 3x3 box holds each digit exactly once.        *)
C1_SolvedOnReturn ==
    (pc = "done" /\ Solvable(input)) => Complete(board)

C1_Witness ==
    /\ pc = "done"
    /\ Solvable(input)
    /\ Backtracked
    /\ Complete(board)

(* C2: for an input board with exactly one solution, the grid after        *)
(* solveSudoku is that solution, and every given still holds its digit.    *)
C2_UniqueSolutionReturned ==
    (pc = "done" /\ UniqueSolution(input)) =>
        /\ Solutions(input) = {board}
        /\ Extends(board, input)

C2_Witness ==
    /\ pc = "done"
    /\ UniqueSolution(input)
    /\ Len(empties) >= 3
    /\ Backtracked
    /\ board = Base

(* C3: for an input with exactly one solution the search terminates, and   *)
(* the root call returns true, entered last with idx = |empties|.          *)
C3_TerminatesWithSuccess ==
    /\ (pc = "start" /\ UniqueSolution(input)) ~> (pc = "done")
    /\ []((pc \in {"ret", "done"} /\ stack = << >> /\ UniqueSolution(input)) =>
            (ret = TRUE /\ arg = Len(empties)))

C3_Witness ==
    /\ pc = "done"
    /\ ret = TRUE
    /\ arg = Len(empties)
    /\ UniqueSolution(input)
    /\ Backtracked

(* C4: for every input board, solvable or not, solveSudoku returns; idx    *)
(* stays in 0..|empties|, the recursion is never deeper than the number of *)
(* empty cells, no read is out of bounds, and failure is the boolean false *)
(* handed to the caller.                                                   *)
C4_Safe ==
    /\ pc \in {"start", "call", "loop", "ret", "done"}
    /\ ret \in BOOLEAN
    /\ arg \in 0 .. Len(empties)
    /\ Len(stack) <= Len(empties)
    /\ \A i \in DOMAIN stack :
        /\ stack[i].idx = i - 1
        /\ stack[i].idx < Len(empties)
        /\ stack[i].r \in 0 .. N - 1
        /\ stack[i].c \in 0 .. N - 1
        /\ stack[i].d \in 0 .. N

C4_TerminatesSafely ==
    /\ [] C4_Safe
    /\ (pc = "start") ~> (pc = "done")

C4_Witness ==
    /\ pc = "done"
    /\ ret = FALSE
    /\ NoClash(input)
    /\ Solutions(input) = {}
    /\ Backtracked

(* C5: at every point of the search, a cell that holds digit v has bit     *)
(* v-1 set in the mask of its row, of its column and of its box.           *)
C5_FilledCellsAreInMasks ==
    Searching =>
        \A p \in Cells : At(board, p) # Dot =>
            LET d == At(board, p) - One
            IN  /\ d \in 0 .. N - 1
                /\ HasBit(rowMask[p[1]], d)
                /\ HasBit(colMask[p[2]], d)
                /\ HasBit(boxMask[boxIndex(p[1], p[2])], d)

C5_Witness ==
    /\ pc = "loop"
    /\ Len(stack) >= 2
    /\ log # << >>
    /\ log[Len(log)][1] = "remove"
    /\ \E p \in Cells : At(input, p) = Dot /\ At(board, p) # Dot

(* C6: remove(r,c,d) right after place(r,c,d) gives back the grid and the  *)
(* three mask arrays as they were before place, for every (r,c,d) the      *)
(* search places.                                                          *)
C6_RemoveUndoesPlace ==
    /\ (pc = "loop" /\ Top.d < N /\ ~isUsed(Top.used, Top.d)) =>
            remove(place(Grid, Top.r, Top.c, Top.d), Top.r, Top.c, Top.d) = Grid
    /\ (/\ pc = "loop"
        /\ Len(log) >= 2
        /\ log[Len(log)][1] = "remove"
        /\ log[Len(log) - 1] = <<"place", Top.r, Top.c, Top.d - 1>>) =>
            Grid = Top.pre

C6_Witness ==
    /\ pc = "loop"
    /\ Len(log) >= 2
    /\ log[Len(log)] = <<"remove", Top.r, Top.c, Top.d - 1>>
    /\ log[Len(log) - 1] = <<"place", Top.r, Top.c, Top.d - 1>>
    /\ Grid = Top.pre
    /\ At(board, <<Top.r, Top.c>>) = Dot

(* C7: two runs of solveSudoku, each on a fresh Solution, on the same      *)
(* input board make the same place / remove steps and return the same grid *)
C7_Deterministic ==
    runs >= 2 =>
        /\ IsPrefix(log, prevLog)
        /\ pc = "done" => (log = prevLog /\ board = prevBoard)

C7_Witness ==
    /\ runs >= 2
    /\ pc = "done"
    /\ Backtracked
    /\ log = prevLog
    /\ board = prevBoard

(* C8: on a fully solved valid board init leaves the empty-cell list       *)
(* empty and solveSudoku returns with the board unchanged: no place, no    *)
(* remove, no dfs call below the root call.                                *)
C8_SolvedBoardUntouched ==
    (Complete(input) /\ pc # "start") =>
        /\ empties = << >>
        /\ board = input
        /\ log = << >>
        /\ stack = << >>
        /\ arg = 0
        /\ pc \in {"call", "ret", "done"}
        /\ pc \in {"ret", "done"} => ret = TRUE

C8_Witness ==
    /\ Complete(input)
    /\ pc = "done"
    /\ empties = << >>
    /\ board = input
    /\ log = << >>

\* the digits found in the row, column and box of p
SeenBy(g, p) == { At(g, q) : q \in Peers(p) } \cap Digits
\* exactly one empty cell, whose row, column and box hold 8 of the 9 digits
OneHole(g) ==
    /\ Cardinality({ p \in Cells : At(g, p) = Dot }) = 1
    /\ \A p \in Cells : At(g, p) = Dot => Cardinality(SeenBy(g, p)) = N - 1

(* C9: on a board with one empty cell whose row, column and box hold 8 of  *)
(* the 9 digits, the solver places the remaining digit there and returns:  *)
(* exactly one place, no remove.                                           *)
C9_SingleCellOneStep ==
    OneHole(input) =>
        LET p == CHOOSE q \in Cells : At(input, q) = Dot
            v == CHOOSE w \in Digits : w \notin SeenBy(input, p)
            step == <<"place", p[1], p[2], v - One>>
        IN  /\ Len(log) <= 1
            /\ log # << >> => log = <<step>>
            /\ Len(stack) <= 1
            /\ pc = "done" =>
                /\ log = <<step>>
                /\ board = [input EXCEPT ![p[1]][p[2]] = v]
                /\ ret = TRUE

C9_Witness ==
    /\ OneHole(input)
    /\ pc = "done"
    /\ Len(log) = 1
    /\ log[1][1] = "place"

----------------------------------------------------------------------------
(* MinStack against a plain stack rebuilt from the calls made              *)

RECURSIVE RefStack(_, _)
\* the values pushed and not yet popped after the calls o[1..k], oldest first
RefStack(o, k) ==
    IF k = 0 THEN << >>
    ELSE LET s == RefStack(o, k - 1)
         IN  IF o[k][1] = "push" THEN Append(s, o[k][2])
             ELSE IF s = << >> THEN s
             ELSE SubSeq(s, 1, Len(s) - 1)

Ref == RefStack(ops, Len(ops))
MinOf(S) == CHOOSE x \in S : \A y \in S : x <= y
Range(s) == { s[i] : i \in DOMAIN s }

(* C10: after any pushes and pops that leave the stack non-empty, getMin() *)
(* is the minimum of the values in the stack and top() is the value pushed *)
(* last and not yet popped, also after one copy of a repeated minimum was  *)
(* popped.                                                                 *)
C10_MinAndTop ==
    Ref # << >> =>
        /\ st # << >>
        /\ minSt # << >>
        /\ getMin = MinOf(Range(Ref))
        /\ top = Ref[Len(Ref)]

C10_Witness ==
    /\ Len(ops) >= 3
    /\ ops[Len(ops)] = <<"pop">>
    /\ ops[Len(ops) - 1][1] = "push"
    /\ ops[Len(ops) - 2] = ops[Len(ops) - 1]
    /\ st # << >>
    /\ getMin = ops[Len(ops) - 1][2]
    /\ getMin = MinOf(Range(Ref))


-----------------------------------------------------------------------------
(* Claims on MyQueue                                                       *)

Rev(s) == [i \in 1 .. Len(s) |-> s[Len(s) + 1 - i]]

\* the arguments (for "push") or results (for "pop", "peek") of the calls
\* named op among the first k calls of history h, in call order
RECURSIVE ValuesOf(_, _, _)
ValuesOf(h, op, k) ==
    IF k = 0 THEN << >>
    ELSE IF h[k][1] = op THEN Append(ValuesOf(h, op, k - 1), h[k][2])
         ELSE ValuesOf(h, op, k - 1)

\* the queue's content, oldest element first
QueueContent == Rev(mq_out) \o mq_in

\* C11: MyQueue is a FIFO queue: the values returned by pop are, in order,
\* the first values pushed; every peek returns the oldest value not yet
\* popped and leaves the content (the values pushed and not yet popped, in
\* push order) as it is; empty() holds exactly when as many values were
\* popped as were pushed.
C11_Fifo ==
    LET pushed == ValuesOf(mq_hist, "push", Len(mq_hist))
        popped == ValuesOf(mq_hist, "pop", Len(mq_hist))
    IN  /\ IsPrefix(popped, pushed)
        /\ QueueContent = SubSeq(pushed, Len(popped) + 1, Len(pushed))
        /\ \A k \in 1 .. Len(mq_hist) :
              mq_hist[k][1] = "peek" =>
                mq_hist[k][2] =
                  pushed[Len(ValuesOf(mq_hist, "pop", k - 1)) + 1]
        /\ MyQueue_empty <=> Len(popped) = Len(pushed)

\* values were pushed after out had been refilled, and both a peek and a
\* pop were answered since
C11_Witness ==
    /\ mq_in # << >>
    /\ mq_out # << >>
    /\ \E j, k \in 1 .. Len(mq_hist) :
          /\ j < k
          /\ mq_hist[j][1] = "peek"
          /\ mq_hist[k][1] = "pop"


-----------------------------------------------------------------------------
(* Claims on MyStack                                                       *)

\* the reference stack after the first k calls of history h, newest first
RECURSIVE Lifo(_, _)
Lifo(h, k) ==
    IF k = 0 THEN << >>
    ELSE IF h[k][1] = "push" THEN <<h[k][2]>> \o Lifo(h, k - 1)
         ELSE Tail(Lifo(h, k - 1))

\* C12: MyStack is a LIFO stack: the queue holds, front first, the values
\* pushed and not yet popped from newest to oldest; right after a push the
\* front is the value just pushed; every pop returned the newest value not
\* yet popped, which is what top() returns; empty() holds exactly when every
\* pushed value has been popped.
C12_Lifo ==
    LET h == ms_hist
        k == Len(ms_hist)
    IN  /\ ms_q = Lifo(h, k)
        /\ (k > 0 /\ h[k][1] = "push") => Head(ms_q) = h[k][2]
        /\ \A j \in 1 .. k : h[j][1] = "pop" => h[j][2] = Head(Lifo(h, j - 1))
        /\ ~MyStack_empty => MyStack_top = Head(Lifo(h, k))
        /\ MyStack_empty <=>
             Len(ValuesOf(h, "pop", k)) = Len(ValuesOf(h, "push", k))

\* a push onto a stack of two different values, after a pop was answered
C12_Witness ==
    /\ Len(ms_q) = 3
    /\ ms_q[2] # ms_q[3]
    /\ ms_hist[Len(ms_hist)][1] = "push"
    /\ \E j \in 1 .. Len(ms_hist) : ms_hist[j][1] = "pop"


-----------------------------------------------------------------------------
(* Claims on MyCalendarThree                                               *)

\* how many of the first k events of history h hold time t, an event
\* <<start, end, _>> holding the times start <= t < end
Holding(h, k, t) == Cardinality({ j \in 1 .. k : h[j][1] <= t /\ t < h[j][2] })

\* the largest number of the first k events that hold a common time; it is
\* reached at the start of one of them
MaxOverlap(h, k) ==
    LET counts == { Holding(h, k, h[j][1]) : j \in 1 .. k }
    IN  CHOOSE m \in counts : \A c \in counts : c <= m

\* C13: every book call returned the largest number of events booked up to
\* and including it that hold a common time, events being half-open
\* [start, end); the returned values never decrease.
C13_MaxOverlapReturned ==
    /\ \A k \in 1 .. Len(cal_hist) : cal_hist[k][3] = MaxOverlap(cal_hist, k)
    /\ \A k \in 1 .. Len(cal_hist) - 1 : cal_hist[k][3] <= cal_hist[k + 1][3]

\* an event ends where another starts, both answered 1, and a third event
\* across the two is answered 2
C13_Witness ==
    /\ Len(cal_hist) = 3
    /\ cal_hist[1][2] = cal_hist[2][1]
    /\ cal_hist[2][3] = 1
    /\ cal_hist[3][1] < cal_hist[1][2]
    /\ cal_hist[3][2] > cal_hist[2][1]
    /\ cal_hist[3][3] = 2


-----------------------------------------------------------------------------
(* Claims on NumArray                                                      *)

\* the current value at index i: that of the last update to i, or nums[i]
Current(i) ==
    LET ks == { k \in 1 .. Len(na_hist) : na_hist[k][1] = i }
    IN  IF ks = {} THEN na_nums[i + 1]
        ELSE na_hist[CHOOSE k \in ks : \A j \in ks : j <= k][2]

\* the sum of the current values at indices left .. right
RECURSIVE SumCurrent(_, _)
SumCurrent(left, right) ==
    IF left > right THEN 0 ELSE Current(left) + SumCurrent(left + 1, right)

\* C14: once constructed, and after any updates, sumRange(left, right) with
\* 0 <= left <= right < n is the sum of the current values at left .. right.
C14_SumRangeIsSumOfCurrent ==
    na_nums # << >> =>
        \A left, right \in 0 .. na_n - 1 :
            left <= right => sumRange(left, right) = SumCurrent(left, right)

\* one index of a vector of three updated twice, each time to a value
\* other than the one it held, so that the whole sum moved away from the
\* sum of nums
C14_Witness ==
    /\ na_n = 3
    /\ Len(na_hist) = 2
    /\ na_hist[1][1] = na_hist[2][1]
    /\ na_hist[1][2] # na_hist[2][2]
    /\ na_hist[1][2] # na_nums[na_hist[1][1] + 1]
    /\ sumRange(0, 2) # na_nums[1] + na_nums[2] + na_nums[3]


-----------------------------------------------------------------------------
(* Further claims on the Sudoku solver                                      *)

\* the cells of box b, numbered as boxIndex numbers them
BoxCells == [b \in 0 .. N - 1 |-> { p \in Cells : boxIndex(p[1], p[2]) = b }]

\* the bits d of the digits d+1 that the cells of unit u hold in grid g
DigitBits(g, u) == { At(g, p) - One : p \in { q \in u : At(g, q) # Dot } }

\* C15: at every point of the search on a fresh Solution, place and remove
\* being single steps, each mask is exactly the set of digits present in
\* its unit: bit d of rowMask[r] is set iff a cell of row r holds digit d+1,
\* and the same for colMask[c] with column c and boxMask[b] with box b.
C15_MasksExact ==
    Searching =>
        \A i \in 0 .. N - 1 :
            /\ rowMask[i] = DigitBits(board, RowUnit(i))
            /\ colMask[i] = DigitBits(board, ColUnit(i))
            /\ boxMask[i] = DigitBits(board, BoxCells[i])

\* in the loop two levels deep, right after a remove, with a placed digit
\* on the board
C15_Witness ==
    /\ pc = "loop"
    /\ Len(stack) >= 2
    /\ log # << >>
    /\ log[Len(log)][1] = "remove"
    /\ At(board, <<stack[1].r, stack[1].c>>) # Dot
    /\ rowMask[Top.r] = DigitBits(board, RowUnit(Top.r))

\* no digit twice in a row, a column or a box: the filled cells of every
\* unit hold as many different digits as there are filled cells
Legal(g) ==
    \A u \in Units :
        Cardinality(DigitBits(g, u)) = Cardinality({ q \in u : At(g, q) # Dot })

\* C16: if the givens of the input obey row/column/box uniqueness, no
\* state of the search has a digit twice in a row, a column or a box.
C16_NoIllegalState ==
    Legal(input) => Legal(board)

\* three placements deep after some backtracking, on an input without clash
C16_Witness ==
    /\ Legal(input)
    /\ pc = "call"
    /\ Len(stack) >= 3
    /\ Backtracked
    /\ \A i \in DOMAIN stack : At(board, <<stack[i].r, stack[i].c>>) # Dot
    /\ NoClash(board)

\* the masks right after init on a fresh Solution given the input board
MasksAfterInit ==
    LET f == CHOOSE m \in freshMasks : TRUE
        i == init(input, f, f, f)
    IN  [rowMask |-> i.rowMask, colMask |-> i.colMask, boxMask |-> i.boxMask]

\* C17: when a dfs call returns false, the grid and the three masks are
\* what they were when the call was entered: at its "return false", and
\* back in the caller, where they are the caller's grid with its placement.
\* When the root call has returned false, the board is the input board and
\* the masks are those right after init.
C17_FailureRestores ==
    /\ (pc = "loop" /\ Top.d >= N) => Grid = Top.entry
    /\ (pc = "ret" /\ ret = FALSE /\ stack # << >>) =>
            /\ Grid.board = [Top.pre.board EXCEPT ![Top.r][Top.c] = One + Top.d]
            /\ remove(Grid, Top.r, Top.c, Top.d) = Top.pre
    /\ (pc \in {"ret", "done"} /\ ret = FALSE /\ stack = << >>) =>
            /\ board = input
            /\ [rowMask |-> rowMask, colMask |-> colMask, boxMask |-> boxMask]
                  = MasksAfterInit

\* solveSudoku returned from an unsolvable input after places and removes
C17_Witness ==
    /\ pc = "done"
    /\ ret = FALSE
    /\ Backtracked
    /\ Len(empties) >= 3
    /\ board = input


\* the digit of the last place step of log l on cell (r, c), as a bit
\* number; -1 when the cell was never placed or its last step is a remove
LastPlaced(l, r, c) ==
    LET ks == { k \in DOMAIN l : l[k][2] = r /\ l[k][3] = c }
    IN  IF ks = {} THEN -1
        ELSE LET k == CHOOSE x \in ks : \A y \in ks : y <= x
             IN  IF l[k][1] = "place" THEN l[k][4] ELSE -1

\* C18: once a dfs call has returned true, every step up to the return of
\* the root call only returns true from the next caller: no digit is tried,
\* no remove happens, the grid and the masks stay as they are; and while
\* true is being returned every empty cell of the input holds the digit
\* placed there last, with its bit in the three masks.
C18_SuccessPropagates ==
    /\ [][(pc = "ret" /\ ret = TRUE) =>
            /\ ret' = TRUE
            /\ pc' \in {"ret", "done"}
            /\ Grid' = Grid
            /\ log' = log
            /\ stack # << >> => (pc' = "ret" /\ stack' = Pop)]_vars
    /\ []((pc \in {"ret", "done"} /\ ret = TRUE) =>
            \A j \in DOMAIN empties :
                LET r == empties[j][1]
                    c == empties[j][2]
                    d == LastPlaced(log, r, c)
                IN  /\ d \in 0 .. N - 1
                    /\ board[r][c] = One + d
                    /\ HasBit(rowMask[r], d)
                    /\ HasBit(colMask[c], d)
                    /\ HasBit(boxMask[boxIndex(r, c)], d))

\* true on its way up, two callers still to return, after some backtracking
C18_Witness ==
    /\ pc = "ret"
    /\ ret = TRUE
    /\ Len(stack) = 2
    /\ Len(empties) >= 3
    /\ Backtracked
    /\ \A j \in DOMAIN empties : LastPlaced(log, empties[j][1], empties[j][2]) >= 0


\* C19 as stated, for every input: a dfs call returns false exactly when
\* the grid it was entered with has no completion obeying row/column/box
\* uniqueness. False is returned only without completion (at every "return
\* false" and at the root); true is returned only with one: for the call
\* that met idx = |empties|, for every caller that true passes through,
\* and for the root call.
C19_FailureIffNoCompletion ==
    /\ (pc = "loop" /\ Top.d >= N) => Fill(Top.entry.board) = {}
    /\ (pc \in {"ret", "done"} /\ stack = << >> /\ ret = FALSE) => Fill(input) = {}
    /\ (pc = "ret" /\ ret = TRUE) =>
            /\ Fill(board) # {}
            /\ \A i \in DOMAIN stack : Fill(stack[i].entry.board) # {}
    /\ (pc \in {"ret", "done"} /\ stack = << >> /\ ret = TRUE) => Fill(input) # {}

\* C19, amended: for every input a dfs call returns false only if the grid
\* it was entered with has no completion obeying row/column/box uniqueness
\* (so at the root only if the puzzle has no solution); and if the givens
\* of the input obey row/column/box uniqueness, it returns true only if
\* there is such a completion, the returned grid being one.
C19_FailureIffNoCompletionOfLegalInput ==
    /\ (pc = "loop" /\ Top.d >= N) => Fill(Top.entry.board) = {}
    /\ (pc \in {"ret", "done"} /\ stack = << >> /\ ret = FALSE) => Fill(input) = {}
    /\ (Legal(input) /\ pc = "ret" /\ ret = TRUE) =>
            /\ Fill(board) = {board}
            /\ \A i \in DOMAIN stack : board \in Fill(stack[i].entry.board)
    /\ (Legal(input) /\ pc \in {"ret", "done"} /\ stack = << >> /\ ret = TRUE) =>
            board \in Fill(input)

\* a call other than the root, entered with placements made, is about to
\* return false on an input with legal givens that does have a solution:
\* the prefix placed so far has no completion, the input has
C19_Witness ==
    /\ pc = "loop"
    /\ Top.d >= N
    /\ Len(stack) >= 2
    /\ Legal(input)
    /\ Fill(input) # {}
    /\ Fill(Top.entry.board) = {}


\* the cells empties[j] with j >= idx (empties[j] is empties[j + 1] here)
OwnCells(idx) == { empties[j] : j \in idx + 1 .. Len(empties) }

\* C20: while a dfs call entered at depth idx is running, itself or a call
\* below it, every cell other than empties[j] with j >= idx holds what it
\* held when the call was entered: the pre-filled cells and the cells the
\* callers decided are never written. The cell of each caller is not among
\* the cells of the calls below it, and no given of the input ever changes.
C20_StackDiscipline ==
    /\ \A i \in DOMAIN stack :
          /\ \A p \in Cells \ OwnCells(stack[i].idx) :
                At(board, p) = At(stack[i].entry.board, p)
          /\ <<stack[i].r, stack[i].c>> \in OwnCells(stack[i].idx)
          /\ \A k \in 1 .. i - 1 :
                /\ <<stack[k].r, stack[k].c>> \notin OwnCells(stack[i].idx)
                /\ At(stack[i].entry.board, <<stack[k].r, stack[k].c>>) # Dot
    /\ Searching => Extends(board, input)

\* three calls deep, after the deepest call has placed and removed a
\* digit, the cells of its two callers still hold their digits
C20_Witness ==
    /\ pc = "loop"
    /\ Len(stack) = 3
    /\ log[Len(log)] = <<"remove", Top.r, Top.c, Top.d - 1>>
    /\ At(board, <<stack[1].r, stack[1].c>>) # Dot
    /\ At(board, <<stack[2].r, stack[2].c>>) # Dot
    /\ At(board, <<Top.r, Top.c>>) = Dot


\* a search state: a dfs call is being entered (depth arg) or is at the
\* start of an iteration of its candidate loop (depth Top.idx)
AtDepth == pc \in {"call", "loop"}
Depth == IF pc = "call" THEN arg ELSE Top.idx

\* C21: in every search state at depth idx, 0 <= idx <= |empties|, the
\* cells empties[0..idx-1] hold a digit and the cells empties[idx..] are
\* '.', the number of filled cells is (81 - |empties|) + idx, and at
\* idx = |empties| every cell of the grid is filled.
C21_DepthCountsFilledCells ==
    AtDepth =>
        /\ Depth \in 0 .. Len(empties)
        /\ \A j \in DOMAIN empties :
              IF j <= Depth THEN At(board, empties[j]) \in Digits
              ELSE At(board, empties[j]) = Dot
        /\ Cardinality({ p \in Cells : At(board, p) # Dot })
              = (N * N - Len(empties)) + Depth
        /\ Depth = Len(empties) => \A p \in Cells : At(board, p) \in Digits

\* the last dfs call is entered, at depth |empties| >= 3, after backtracking
C21_Witness ==
    /\ pc = "call"
    /\ arg = Len(empties)
    /\ Len(empties) >= 3
    /\ Backtracked
    /\ \A p \in Cells : At(board, p) \in Digits

\* cell p comes before cell q in row-major order
RowMajorBefore(p, q) == p[1] < q[1] \/ (p[1] = q[1] /\ p[2] < q[2])

\* C22: from init on, through the whole search, the empty-cell list holds
\* exactly the cells that are '.' in the input board, each once, in
\* row-major order (r ascending, then c ascending).
C22_EmptiesFixedRowMajor ==
    Searching =>
        /\ { empties[j] : j \in DOMAIN empties } = { p \in Cells : At(input, p) = Dot }
        /\ \A i, j \in DOMAIN empties : i < j => RowMajorBefore(empties[i], empties[j])

\* in the middle of a search with backtracking behind it, the list holds
\* cells of two rows, a column that comes earlier listed after a later one
C22_Witness ==
    /\ pc = "loop"
    /\ Backtracked
    /\ \E i, j \in DOMAIN empties :
          /\ i < j
          /\ empties[i][1] < empties[j][1]
          /\ empties[i][2] > empties[j][2]
    /\ \E p \in Cells : At(input, p) = Dot /\ At(board, p) # Dot


\* C23: solveSudoku called again on the same Solution: when the search of
\* a call starts (dfs(board, 0) about to be entered) every mask holds
\* exactly the digits of the filled cells of its unit in the board handed
\* to that call, and the second call makes the steps and leaves the grid
\* that the first call, made on the fresh object, did on the same board.
C23_ReuseLikeFresh ==
    /\ (pc = "call" /\ stack = << >>) =>
            \A i \in 0 .. N - 1 :
                /\ rowMask[i] = DigitBits(board, RowUnit(i))
                /\ colMask[i] = DigitBits(board, ColUnit(i))
                /\ boxMask[i] = DigitBits(board, BoxCells[i])
    /\ (runs = 2 /\ pc = "done") => (board = prevBoard /\ log = prevLog)


\* C24: at the start of every iteration of the candidate loop of a dfs
\* call, rowMask[r] | colMask[c] | boxMask[box(r,c)] is the value of used
\* read when the call was entered, so a digit that passes the test on
\* used is in none of the three masks of the cell when it is placed.
C24_UsedStaysValid ==
    pc = "loop" =>
        /\ usedMask(rowMask, colMask, boxMask, Top.r, Top.c) = Top.used
        /\ (Top.d < N /\ ~isUsed(Top.used, Top.d)) =>
              /\ ~HasBit(rowMask[Top.r], Top.d)
              /\ ~HasBit(colMask[Top.c], Top.d)
              /\ ~HasBit(boxMask[boxIndex(Top.r, Top.c)], Top.d)

\* a sibling candidate is about to be placed: an earlier candidate of the
\* same call was placed and removed, and the next free digit is reached
C24_Witness ==
    /\ pc = "loop"
    /\ Top.d < N
    /\ ~isUsed(Top.used, Top.d)
    /\ log # << >>
    /\ log[Len(log)][1] = "remove"
    /\ log[Len(log)][2] = Top.r
    /\ log[Len(log)][3] = Top.c
    /\ log[Len(log)][4] < Top.d
    /\ Len(stack) >= 2


\* grid g is smaller than grid h when the cells that are '.' in board b
\* are read in row-major order: they differ on such a cell, and at the
\* first one g holds the smaller digit
LexLess(g, h, b) ==
    \E p \in { q \in Cells : At(b, q) = Dot } :
        /\ At(g, p) < At(h, p)
        /\ \A q \in { x \in Cells : At(b, x) = Dot } :
              RowMajorBefore(q, p) => At(g, q) = At(h, q)

\* C25: on an input with legal givens and at least one solution, also
\* with more than one, the grid solveSudoku returns is the solution that
\* comes first when the empty cells of the input are read in row-major
\* order and compared digit by digit.
C25_SmallestSolutionReturned ==
    (pc = "done" /\ Legal(input) /\ Solutions(input) # {}) =>
        /\ board \in Solutions(input)
        /\ \A h \in Solutions(input) \ {board} : LexLess(board, h, input)

\* solveSudoku has returned on an input that has more than one solution
C25_Witness ==
    /\ pc = "done"
    /\ Legal(input)
    /\ Cardinality(Solutions(input)) >= 2
    /\ board \in Solutions(input)


\* the bit position init computes for board character ch: ch - '1'
BitOfChar(ch) == ch - One

\* C26: a cell the search has written reads back, by init's ch - '1', as
\* the bit position d it was written for with '1' + d; reading the whole
\* grid back with init on zeroed masks gives the masks the search holds;
\* and every mask has bits 0..8 only, its value being within 0..511.
C26_DigitBitRoundTrip ==
    Searching =>
        /\ \A i \in DOMAIN stack :
              (i < Len(stack) \/ pc \in {"call", "ret"}) =>
                  BitOfChar(board[stack[i].r][stack[i].c]) = stack[i].d
        /\ \A d \in 0 .. N - 1 : BitOfChar(digitChar(d)) = d
        /\ pc = "call" =>
              LET f == CHOOSE m \in freshMasks : TRUE
                  i == init(board, f, f, f)
              IN  /\ i.rowMask = rowMask
                  /\ i.colMask = colMask
                  /\ i.boxMask = boxMask
        /\ \A i \in 0 .. N - 1 :
              /\ rowMask[i] \subseteq 0 .. N - 1
              /\ colMask[i] \subseteq 0 .. N - 1
              /\ boxMask[i] \subseteq 0 .. N - 1
              /\ ToInt(rowMask[i]) \in 0 .. 511
              /\ ToInt(colMask[i]) \in 0 .. 511
              /\ ToInt(boxMask[i]) \in 0 .. 511

\* digit 9 (bit 8) has just been written three calls deep, after removes
C26_Witness ==
    /\ pc = "call"
    /\ Len(stack) >= 3
    /\ Backtracked
    /\ \E i \in DOMAIN stack :
          /\ stack[i].d = N - 1
          /\ board[stack[i].r][stack[i].c] = One + (N - 1)
          /\ HasBit(rowMask[stack[i].r], N - 1)


\* two cells of one row are '.' in board b
TwoEmptyInARow(b) ==
    \E p, q \in Cells : p[1] = q[1] /\ p[2] # q[2] /\ At(b, p) = Dot /\ At(b, q) = Dot

\* C27: the solver whose backtrack step clears the cell but leaves the
\* three mask bits set is caught by a board with a unique solution: once
\* it has backtracked on such a board, it does not return that solution.
\* It reports false, with cells left '.'.
C27_SkippedRestoreIsObservable ==
    (pc = "done" /\ Backtracked /\ UniqueSolution(input)) =>
        /\ board \notin Solutions(input)
        /\ ret = FALSE

\* the altered solver has returned from a board with a unique solution
\* and several empty cells in one row, after a backtrack step, and the
\* grid is not that solution
C27_Witness ==
    /\ pc = "done"
    /\ Backtracked
    /\ UniqueSolution(input)
    /\ TwoEmptyInARow(input)
    /\ Solutions(input) = {Base}
    /\ board # Base
    /\ \E i \in 0 .. N - 1 : rowMask[i] # DigitBits(board, RowUnit(i))


-----------------------------------------------------------------------------
(* Claims on MedianFinder                                                  *)

\* the first k numbers of h in ascending order
RECURSIVE Ascending(_, _)
Ascending(h, k) ==
    IF k = 0 THEN << >>
    ELSE LET s == Ascending(h, k - 1)
             m == Cardinality({ i \in DOMAIN s : s[i] <= h[k] })
         IN  SubSeq(s, 1, m) \o <<h[k]>> \o SubSeq(s, m + 1, Len(s))

\* C28: after every addNum, maxHeap has as many elements as minHeap or
\* one more, every element of maxHeap is <= every element of minHeap, and
\* the two heaps hold the numbers added; so maxHeap.top() is the lower
\* median of the numbers added and, with equal sizes, minHeap.top() is the
\* upper median, and findMedian() is their mean.
C28_HeapsSplitAtMedian ==
    LET n == Len(mf_hist)
        all == Ascending(mf_hist, n)
        lo == mf_maxHeap
        hi == mf_minHeap
    IN  /\ Len(lo) = Len(hi) \/ Len(lo) = Len(hi) + 1
        /\ \A i \in DOMAIN lo : \A j \in DOMAIN hi : lo[i] <= hi[j]
        /\ Len(lo) + Len(hi) = n
        /\ \A v \in Vals :
              Cardinality({ i \in DOMAIN lo : lo[i] = v })
                + Cardinality({ j \in DOMAIN hi : hi[j] = v })
              = Cardinality({ k \in DOMAIN mf_hist : mf_hist[k] = v })
        /\ n > 0 => lo[Len(lo)] = all[(n + 1) \div 2]
        /\ (n > 0 /\ Len(lo) = Len(hi)) => hi[1] = all[n \div 2 + 1]
        /\ n > 0 => findMedianTwice = all[(n + 1) \div 2] + all[n \div 2 + 1]

\* four numbers added, each pair in descending order, two in each heap,
\* the two medians different
C28_Witness ==
    /\ Len(mf_hist) = 4
    /\ mf_hist[1] > mf_hist[2]
    /\ mf_hist[3] > mf_hist[4]
    /\ Len(mf_maxHeap) = 2
    /\ Len(mf_minHeap) = 2
    /\ mf_maxHeap[2] < mf_minHeap[1]


-----------------------------------------------------------------------------
(* Further claim on MinStack                                               *)

\* C29: pop() on an empty MinStack changes neither stack, both stay
\* empty; and after any pushes and pops, pops of the empty stack among
\* them, minSt is empty exactly when st is empty.
C29_EmptyPopAndEmptiness ==
    /\ [](minSt = << >> <=> st = << >>)
    /\ [][(st = << >> /\ ops' = Append(ops, <<"pop">>)) =>
            (st' = << >> /\ minSt' = << >>)]_vars

\* pop was called on a stack that pushes and pops had emptied, and a
\* pop of the empty stack came before the first push
C29_Witness ==
    /\ Len(ops) >= 4
    /\ ops[1] = <<"pop">>
    /\ ops[2][1] = "push"
    /\ ops[Len(ops) - 1] = <<"pop">>
    /\ ops[Len(ops)] = <<"pop">>
    /\ RefStack(ops, Len(ops) - 1) = << >>
    /\ st = << >>
    /\ minSt = << >>

-----------------------------------------------------------------------------
(* Claim on boxIndex                                                       *)

\* cells p and q lie in the same 3x3 sub-grid
SameSubGrid(p, q) == \E i, j \in 0 .. 2 : p \in BoxUnit(i, j) /\ q \in BoxUnit(i, j)

\* C30: boxIndex(r, c) with 0 <= r, c <= 8 is a box number in 0..8, that
\* of the sub-grid of (r, c) counted row by row; two cells get the same
\* number iff they lie in the same 3x3 sub-grid; every box number is the
\* image of exactly 9 cells.
C30_BoxIndexPartitions ==
    bx_b # -1 =>
        /\ bx_b \in 0 .. N - 1
        /\ <<bx_r, bx_c>> \in BoxUnit(bx_b \div 3, bx_b % 3)
        /\ \A q \in Cells :
              boxIndex(q[1], q[2]) = bx_b <=> SameSubGrid(<<bx_r, bx_c>>, q)
        /\ \A b \in 0 .. N - 1 :
              Cardinality({ q \in Cells : boxIndex(q[1], q[2]) = b }) = N

\* boxIndex has returned 5 for a cell of the middle right sub-grid
C30_Witness ==
    /\ bx_b = 5
    /\ bx_r = 4
    /\ bx_c = 8

====
